---------------------------- MODULE Spec2Model ----------------------------
(***************************************************************************)
(* A model of transform-csv.py: the settings cache (load/save of a         *)
(* FieldsSetting per input file), the interactive field classification     *)
(* loop, the lag transform, and main, which wires them into one run.       *)
(*                                                                         *)
(* Text (paths, column names, cells) is modelled by strings; a FieldsSetting*)
(* by a record whose fields_to_window / fields_to_drop are sets: the code  *)
(* builds both lists with list(set) and every reader turns them back into  *)
(* a set (lines 91-92, 200-201), so their order is never observed.         *)
(***************************************************************************)
EXTENDS Integers, Sequences, FiniteSets, TLC

VARIABLES
    cacheFile,          \* the file at CACHE_PATH: [kind, entries]
    pc,                 \* where the process is
    input_file_path,    \* args.input_file_path, as given on the command line
    n_lags,             \* args.n_lags
    df,                 \* the table read from the input file
    fields_setting,     \* main's fields_setting (None before it is loaded)
    current_field_idx,  \* the session's cursor
    fields_to_window,   \* the session's three sets
    fields_to_drop,
    fields_to_keep,
    key,                \* the last key read by getch (None before the first)
    df_new,             \* the table transform returned
    outFile,            \* what this process wrote to the output file
    fault,              \* the uncaught exception that ended the process
    cache0,             \* history: cacheFile when the process (the call) started
    lastSaved,          \* history: the last save_fields_setting call
    firstLoaded,        \* history: what the load before a re-save returned
    terminal,           \* the mode of the terminal: "normal" or "curses"
    height,             \* the session's height, from stdscr.getmaxyx()
    io                  \* history: the files this process opened, in order

vars == <<cacheFile, pc, input_file_path, n_lags, df, fields_setting,
          current_field_idx, fields_to_window, fields_to_drop, fields_to_keep,
          key, df_new, outFile, fault, cache0, lastSaved, firstLoaded,
          terminal, height, io>>

----------------------------------------------------------------------------
(* Bounds of the model.                                                     *)

MaxLags == 2        \* n_lags ranges over 1..MaxLags
MaxRows == 2        \* tables have 0..MaxRows rows (SpecTransform)
MaxFields == 2      \* tables have 1..MaxFields columns (SpecTransform)
MaxHeight == 2      \* the small terminal heights are 1..MaxHeight

----------------------------------------------------------------------------
(* Text.                                                                    *)

Char(s, i) == SubSeq(s, i, i)

\* The characters that occur in the model's text, in code point order.
Alphabet == "-./0123456789:T_abcdefghijklmnopqrstuvwxyz"

\* The rank of each character in that order.
CodePoint ==
    [c \in {Char(Alphabet, i) : i \in 1..Len(Alphabet)} |->
        CHOOSE i \in 1..Len(Alphabet) : Char(Alphabet, i) = c]

Ord(c) == CodePoint[c]

\* Python's str < str: by code point from position i on, a proper prefix
\* first.
RECURSIVE StrLessFrom(_, _, _)
StrLessFrom(s, t, i) ==
    IF i > Len(t) THEN FALSE
    ELSE IF i > Len(s) THEN TRUE
    ELSE IF Char(s, i) # Char(t, i) THEN Ord(Char(s, i)) < Ord(Char(t, i))
    ELSE StrLessFrom(s, t, i + 1)

StrLess(s, t) == StrLessFrom(s, t, 1)

\* str.endswith
EndsWith(s, t) ==
    /\ Len(s) >= Len(t)
    /\ SubSeq(s, Len(s) - Len(t) + 1, Len(s)) = t

LastSlash(p) ==
    LET at == {i \in 1..Len(p) : Char(p, i) = "/"}
    IN  IF at = {} THEN 0 ELSE CHOOSE i \in at : \A j \in at : j <= i

\* pathlib.Path.name: the last component.
PathName(p) == SubSeq(p, LastSlash(p) + 1, Len(p))

\* The directory the process runs in.
Cwd == "/b"

\* pathlib.Path.resolve then str: an absolute path stays, a relative one
\* is taken from the working directory.
Resolve(p) == IF Len(p) > 0 /\ Char(p, 1) = "/" THEN p ELSE Cwd \o "/" \o p

Range(s) == {s[i] : i \in 1..Len(s)}

----------------------------------------------------------------------------
(* FieldsSetting and the cache file.                                        *)

None == [none |-> TRUE]

FieldsSetting(all_fields, window, drop) ==
    [all_fields |-> all_fields, fields_to_window |-> window,
     fields_to_drop |-> drop]

\* to_plain with the two lists taken from each other's attribute.
to_plain_swapped(self) ==
    [all_fields |-> self.all_fields,
     fields_to_window |-> self.fields_to_drop,
     fields_to_drop |-> self.fields_to_window]

to_plain(self) ==
    [all_fields |-> self.all_fields,
     fields_to_window |-> self.fields_to_window,
     fields_to_drop |-> self.fields_to_drop]

from_plain(plain_obj) ==
    FieldsSetting(plain_obj.all_fields, plain_obj.fields_to_window,
                  plain_obj.fields_to_drop)

\* A dict is a sequence of [key, value] with distinct keys, in insertion
\* order, which is the order a for loop walks it in.
DictKeys(d) == {d[i].key : i \in 1..Len(d)}

DictGet(d, k) == d[CHOOSE i \in 1..Len(d) : d[i].key = k].value

DictSet(d, k, v) ==
    IF k \in DictKeys(d)
    THEN [i \in 1..Len(d) |-> IF d[i].key = k THEN [key |-> k, value |-> v]
                                               ELSE d[i]]
    ELSE Append(d, [key |-> k, value |-> v])

\* json.dumps(..., sort_keys=True): the entries by increasing key.
RECURSIVE SortedByKey(_)
SortedByKey(d) ==
    IF Len(d) = 0 THEN <<>>
    ELSE LET m == CHOOSE i \in 1..Len(d) :
                      \A j \in 1..Len(d) : j = i \/ StrLess(d[i].key, d[j].key)
             rest == [j \in 1..(Len(d) - 1) |-> IF j < m THEN d[j] ELSE d[j + 1]]
         IN  <<d[m]>> \o SortedByKey(rest)

MissingFile == [kind |-> "missing", entries |-> <<>>]
CorruptFile == [kind |-> "corrupt", entries |-> <<>>]

save_all_cache(all_cache) == [kind |-> "json", entries |-> SortedByKey(all_cache)]

\* json.loads raises on a file that does not hold JSON.
load_all_cache_raises(file) == file.kind = "corrupt"

load_all_cache(file) == IF file.kind = "missing" THEN <<>> ELSE file.entries

\* save_fields_setting that starts from an empty dict, not from the file.
save_fields_setting_fresh(file, path, setting) ==
    LET k == Resolve(path)
    IN  save_all_cache(DictSet(<<>>, k, to_plain(setting)))

\* The file save_fields_setting leaves (when load_all_cache does not raise).
save_fields_setting(file, path, setting) ==
    LET k == Resolve(path)
        all_cache == load_all_cache(file)
    IN  save_all_cache(DictSet(all_cache, k, to_plain(setting)))

\* The first key, in the dict's order, that ends with the file name.
SuffixMatches(all_cache, filename) ==
    {i \in 1..Len(all_cache) : EndsWith(all_cache[i].key, filename)}

\* load_fields_setting whose loop keeps the last matching key, not the first.
load_fields_setting_last_match(file, path) ==
    LET k == Resolve(path)
        all_cache == load_all_cache(file)
        hits == SuffixMatches(all_cache, PathName(k))
    IN  IF k \in DictKeys(all_cache) THEN from_plain(DictGet(all_cache, k))
        ELSE IF hits # {}
             THEN from_plain(all_cache[CHOOSE i \in hits : \A j \in hits : j <= i].value)
             ELSE None

load_fields_setting(file, path) ==
    LET k == Resolve(path)
        all_cache == load_all_cache(file)
        filename == PathName(k)
        hits == SuffixMatches(all_cache, filename)
    IN  IF k \in DictKeys(all_cache) THEN from_plain(DictGet(all_cache, k))
        ELSE IF hits # {}
             THEN from_plain(all_cache[CHOOSE i \in hits : \A j \in hits : i <= j].value)
             ELSE None

----------------------------------------------------------------------------
(* Tables: pandas.DataFrame and Series, as far as transform uses them.      *)
(* Every index here is 0..n-1 (read_csv's default, ignore_index=True), so   *)
(* aligning on the index is aligning by position.                           *)

NoneCell == "<None>"    \* Python's None in a Series
NaN == "<NaN>"          \* the fill value of a reindex

IsNull(v) == v \in {NoneCell, NaN}

\* The text of row r (0-based) of source column f: every cell is distinct.
Cell(f, r) == f \o ":" \o ToString(r)

\* The table read_csv returns for a file with these columns and n rows.
MakeTable(cols, n) ==
    [columns |-> cols, nrows |-> n,
     col |-> [f \in Range(cols) |-> [r \in 1..n |-> Cell(f, r - 1)]]]

\* pd.DataFrame(dtype=str): no columns, an empty index.
EmptyFrame == [columns |-> <<>>, nrows |-> 0, col |-> [f \in {} |-> <<>>]]

\* Series.reindex to the index 0..n-1: cut, or filled with NaN.
Reindex(s, n) == [r \in 1..n |-> IF r <= Len(s) THEN s[r] ELSE NaN]

\* frame[name] = value, value a Series: a frame whose index is empty takes
\* the index of a non-empty value (DataFrame._ensure_valid_index), the value
\* is reindexed to the frame's index, and the column replaces the one of
\* that name or is added last.
SetItem(frame, name, value) ==
    LET n == IF frame.nrows = 0 /\ Len(value) > 0 THEN Len(value)
                                                  ELSE frame.nrows
    IN  [columns |-> IF name \in Range(frame.columns) THEN frame.columns
                     ELSE Append(frame.columns, name),
         nrows |-> n,
         col |-> [f \in (DOMAIN frame.col) \cup {name} |->
                     IF f = name THEN Reindex(value, n)
                     ELSE Reindex(frame.col[f], n)]]

\* s[:stop], Python's slice: a negative stop counts from the end.
SliceTo(s, stop) ==
    LET e == IF stop < 0
             THEN (IF stop + Len(s) < 0 THEN 0 ELSE stop + Len(s))
             ELSE (IF stop > Len(s) THEN Len(s) ELSE stop)
    IN  SubSeq(s, 1, e)

\* f"{f}_T-{i}"
new_field(f, i) == f \o "_T-" \o ToString(i)

\* pd.Series([None] * i, dtype=str).append(df[f][: len(df) - i], ignore_index=True)
LagSeries(table, f, i) ==
    [j \in 1..i |-> NoneCell] \o SliceTo(table.col[f], table.nrows - i)

\* for i in range(n_lags): df_new[new_field] = ...   (from lag i on)
RECURSIVE WindowLoop(_, _, _, _, _)
WindowLoop(frame, table, f, i, lags) ==
    IF i >= lags THEN frame
    ELSE WindowLoop(SetItem(frame, new_field(f, i), LagSeries(table, f, i)),
                    table, f, i + 1, lags)

\* for f in fields_setting.all_fields: ...   (from the k-th field on).
\* df[f] raises KeyError when the table has no column f.
RECURSIVE FieldLoop(_, _, _, _, _)
FieldLoop(frame, table, setting, k, lags) ==
    IF k > Len(setting.all_fields) THEN [raised |-> "", frame |-> frame]
    ELSE LET f == setting.all_fields[k]
         IN  IF f \in setting.fields_to_window
             THEN IF f \notin Range(table.columns)
                  THEN [raised |-> "KeyError", frame |-> frame]
                  ELSE FieldLoop(WindowLoop(frame, table, f, 0, lags),
                                 table, setting, k + 1, lags)
             ELSE IF f \in setting.fields_to_drop
             THEN FieldLoop(frame, table, setting, k + 1, lags)
             ELSE IF f \notin Range(table.columns)
                  THEN [raised |-> "KeyError", frame |-> frame]
                  ELSE FieldLoop(SetItem(frame, f, table.col[f]),
                                 table, setting, k + 1, lags)

transform(table, setting, lags) == FieldLoop(EmptyFrame, table, setting, 1, lags)

\* DataFrame.to_csv(path, index=False): the header, then the rows, a null
\* cell written as the empty text.
to_csv(frame) ==
    [header |-> frame.columns,
     rows |-> [r \in 1..frame.nrows |->
                  [c \in 1..Len(frame.columns) |->
                      LET v == frame.col[frame.columns[c]][r]
                      IN  IF IsNull(v) THEN "" ELSE v]]]

NoFile == [header |-> <<>>, rows |-> <<>>, absent |-> TRUE]

----------------------------------------------------------------------------
(* Inputs.                                                                  *)

\* Command lines name the input file by one of these paths.
InputPaths == {"/a/data.csv", "data.csv"}

\* The tables a run of main reads.
SourceTables ==
    {MakeTable(<<"a", "b">>, 2), MakeTable(<<"b">>, 1)}

\* n_lags of a run of main: left out (the default, 1) or given.
RunLags == {1, MaxLags}

\* Key codes: the curses.KEY_* constants by name, 27 as "ESC", ord(c) as c.
MoveKeys == {"KEY_DOWN", "KEY_UP"}
KeepKeys == {"k", " "}
EnterKeys == {"KEY_ENTER", "\n"}
QuitKeys == {"ESC", "q"}
OtherKeys == {"x", "KEY_LEFT"}

NoKey == "None"

----------------------------------------------------------------------------
(* configure_fields_settings_interactively                                  *)

all_fields == fields_setting.all_fields

\* go_down without its test.
go_down_unclamped(idx, n) == idx + 1

go_down(idx, n) == IF idx < n - 1 THEN idx + 1 ELSE idx

go_up(idx) == IF idx > 0 THEN idx - 1 ELSE idx

\* The drawing loop raises when a field is in none of the three sets.
draw_raises(fields, w, d, k) == \E f \in Range(fields) : f \notin w \cup d \cup k

sessionVars == <<current_field_idx, fields_to_window, fields_to_drop,
                 fields_to_keep, key>>

\* What every step leaves alone unless it says otherwise.
envVars == <<input_file_path, n_lags, df, cache0, lastSaved, firstLoaded>>

pad_height(fields) == Len(fields) + 2

Max(a, b) == IF a >= b THEN a ELSE b

Min(a, b) == IF a <= b THEN a ELSE b

\* The first argument of pad.refresh with + 1 for its + 2.
pminrow_plus_one(idx, h) == Max(0, idx - h + 1)

\* The arguments of pad.refresh: the first pad row shown, and the last
\* screen row it is shown in (the first screen row is 0).
pminrow(idx, h) == Max(0, idx - h + 2)

smaxrow(h, fields) == Min(h, pad_height(fields)) - 1

\* The heights a terminal may have when the session looks: the small ones,
\* and one that shows more lines than the pad has.
TerminalHeights(fields) == (1..MaxHeight) \cup {pad_height(fields) + 1}

\* height, width = stdscr.getmaxyx(), at the top of every iteration.
ReadSize == height' \in TerminalHeights(all_fields)

\* The rest of a loop iteration once the key is handled: draw every field,
\* refresh, and wait in getch.  An exception leaves the function through
\* curses.wrapper, whose finally clause ends curses mode.
Redraw(w, d, k) ==
    IF draw_raises(all_fields, w, d, k)
    THEN pc' = "error" /\ fault' = "Exception: Unexpected field"
                      /\ terminal' = "normal"
    ELSE pc' = "getch" /\ UNCHANGED fault /\ terminal' = "curses"

\* The set-up with fields_to_keep left empty.
SessionStart_NoKeep ==
    /\ pc = "wrapper"
    /\ current_field_idx' = 0
    /\ fields_to_window' = fields_setting.fields_to_window
    /\ fields_to_drop' = fields_setting.fields_to_drop
    /\ fields_to_keep' = {}
    /\ key' = NoKey
    /\ IF all_fields = <<>>
       THEN /\ pc' = "error" /\ fault' = "ValueError"
            /\ terminal' = "normal"
            /\ UNCHANGED height
       ELSE /\ ReadSize
            /\ Redraw(fields_to_window', fields_to_drop', fields_to_keep')
    /\ UNCHANGED <<cacheFile, fields_setting, df_new, outFile>>
    /\ UNCHANGED envVars
    /\ UNCHANGED io

\* curses.wrapper calls the function: the set-up before the loop and the
\* first iteration, in which key is None.  max() of no field raises.
SessionStart ==
    /\ pc = "wrapper"
    /\ current_field_idx' = 0
    /\ fields_to_window' = fields_setting.fields_to_window
    /\ fields_to_drop' = fields_setting.fields_to_drop
    /\ fields_to_keep' = (Range(all_fields) \ fields_setting.fields_to_window)
                             \ fields_setting.fields_to_drop
    /\ key' = NoKey
    /\ IF all_fields = <<>>
       THEN /\ pc' = "error" /\ fault' = "ValueError"
            /\ terminal' = "normal"
            /\ UNCHANGED height
       ELSE /\ ReadSize
            /\ Redraw(fields_to_window', fields_to_drop', fields_to_keep')
    /\ UNCHANGED <<cacheFile, fields_setting, df_new, outFile>>
    /\ UNCHANGED envVars
    /\ UNCHANGED io

KeyDown ==
    /\ pc = "getch"
    /\ ReadSize
    /\ key' = "KEY_DOWN"
    /\ current_field_idx' = go_down(current_field_idx, Len(all_fields))
    /\ Redraw(fields_to_window, fields_to_drop, fields_to_keep)
    /\ UNCHANGED <<fields_to_window, fields_to_drop, fields_to_keep>>
    /\ UNCHANGED <<cacheFile, fields_setting, df_new, outFile>>
    /\ UNCHANGED envVars
    /\ UNCHANGED io

KeyUp ==
    /\ pc = "getch"
    /\ ReadSize
    /\ key' = "KEY_UP"
    /\ current_field_idx' = go_up(current_field_idx)
    /\ Redraw(fields_to_window, fields_to_drop, fields_to_keep)
    /\ UNCHANGED <<fields_to_window, fields_to_drop, fields_to_keep>>
    /\ UNCHANGED <<cacheFile, fields_setting, df_new, outFile>>
    /\ UNCHANGED envVars
    /\ UNCHANGED io

KeyKeep ==
    /\ pc = "getch"
    /\ ReadSize
    /\ \E c \in KeepKeys : key' = c
    /\ LET current_field == all_fields[current_field_idx + 1]
       IN  /\ fields_to_window' = fields_to_window \ {current_field}
           /\ fields_to_drop' = fields_to_drop \ {current_field}
           /\ fields_to_keep' = fields_to_keep \cup {current_field}
    /\ current_field_idx' = go_down(current_field_idx, Len(all_fields))
    /\ Redraw(fields_to_window', fields_to_drop', fields_to_keep')
    /\ UNCHANGED <<cacheFile, fields_setting, df_new, outFile>>
    /\ UNCHANGED envVars
    /\ UNCHANGED io

\* The "d" branch without its discard from fields_to_window.
KeyDrop_NoDiscard ==
    /\ pc = "getch"
    /\ ReadSize
    /\ key' = "d"
    /\ LET current_field == all_fields[current_field_idx + 1]
       IN  /\ fields_to_window' = fields_to_window
           /\ fields_to_drop' = fields_to_drop \cup {current_field}
           /\ fields_to_keep' = fields_to_keep \ {current_field}
    /\ current_field_idx' = go_down(current_field_idx, Len(all_fields))
    /\ Redraw(fields_to_window', fields_to_drop', fields_to_keep')
    /\ UNCHANGED <<cacheFile, fields_setting, df_new, outFile>>
    /\ UNCHANGED envVars
    /\ UNCHANGED io

KeyDrop ==
    /\ pc = "getch"
    /\ ReadSize
    /\ key' = "d"
    /\ LET current_field == all_fields[current_field_idx + 1]
       IN  /\ fields_to_window' = fields_to_window \ {current_field}
           /\ fields_to_drop' = fields_to_drop \cup {current_field}
           /\ fields_to_keep' = fields_to_keep \ {current_field}
    /\ current_field_idx' = go_down(current_field_idx, Len(all_fields))
    /\ Redraw(fields_to_window', fields_to_drop', fields_to_keep')
    /\ UNCHANGED <<cacheFile, fields_setting, df_new, outFile>>
    /\ UNCHANGED envVars
    /\ UNCHANGED io

\* The "w" branch without its go_down().
KeyWindow_NoAdvance ==
    /\ pc = "getch"
    /\ ReadSize
    /\ key' = "w"
    /\ LET current_field == all_fields[current_field_idx + 1]
       IN  /\ fields_to_window' = fields_to_window \cup {current_field}
           /\ fields_to_drop' = fields_to_drop \ {current_field}
           /\ fields_to_keep' = fields_to_keep \ {current_field}
    /\ UNCHANGED current_field_idx
    /\ Redraw(fields_to_window', fields_to_drop', fields_to_keep')
    /\ UNCHANGED <<cacheFile, fields_setting, df_new, outFile>>
    /\ UNCHANGED envVars
    /\ UNCHANGED io

KeyWindow ==
    /\ pc = "getch"
    /\ ReadSize
    /\ key' = "w"
    /\ LET current_field == all_fields[current_field_idx + 1]
       IN  /\ fields_to_window' = fields_to_window \cup {current_field}
           /\ fields_to_drop' = fields_to_drop \ {current_field}
           /\ fields_to_keep' = fields_to_keep \ {current_field}
    /\ current_field_idx' = go_down(current_field_idx, Len(all_fields))
    /\ Redraw(fields_to_window', fields_to_drop', fields_to_keep')
    /\ UNCHANGED <<cacheFile, fields_setting, df_new, outFile>>
    /\ UNCHANGED envVars
    /\ UNCHANGED io

\* A key no branch names, handled as if it were KEY_DOWN.
KeyOther_GoesDown ==
    /\ pc = "getch"
    /\ ReadSize
    /\ \E c \in OtherKeys : key' = c
    /\ current_field_idx' = go_down(current_field_idx, Len(all_fields))
    /\ Redraw(fields_to_window, fields_to_drop, fields_to_keep)
    /\ UNCHANGED <<fields_to_window, fields_to_drop, fields_to_keep>>
    /\ UNCHANGED <<cacheFile, fields_setting, df_new, outFile>>
    /\ UNCHANGED envVars
    /\ UNCHANGED io

\* A key no branch names: the iteration only draws again.
KeyOther ==
    /\ pc = "getch"
    /\ ReadSize
    /\ \E c \in OtherKeys : key' = c
    /\ Redraw(fields_to_window, fields_to_drop, fields_to_keep)
    /\ UNCHANGED <<current_field_idx, fields_to_window, fields_to_drop,
                   fields_to_keep>>
    /\ UNCHANGED <<cacheFile, fields_setting, df_new, outFile>>
    /\ UNCHANGED envVars
    /\ UNCHANGED io

\* break, and the return: main's fields_setting is the returned object.
\* curses.wrapper ends curses mode on the way out.
KeyEnter ==
    /\ pc = "getch"
    /\ ReadSize
    /\ \E c \in EnterKeys : key' = c
    /\ fields_setting' = FieldsSetting(all_fields, fields_to_window, fields_to_drop)
    /\ pc' = "save"
    /\ terminal' = "normal"
    /\ UNCHANGED <<current_field_idx, fields_to_window, fields_to_drop,
                   fields_to_keep>>
    /\ UNCHANGED <<cacheFile, df_new, outFile, fault>>
    /\ UNCHANGED envVars
    /\ UNCHANGED io

\* A quit branch that saves the edits before it exits.
KeyQuit_Saves ==
    /\ pc = "getch"
    /\ ReadSize
    /\ \E c \in QuitKeys : key' = "Exit"
    /\ pc' = "exit"
    /\ terminal' = "normal"
    /\ cacheFile' = save_fields_setting(cacheFile, input_file_path,
                         FieldsSetting(all_fields, fields_to_window, fields_to_drop))
    /\ UNCHANGED <<current_field_idx, fields_to_window, fields_to_drop,
                   fields_to_keep>>
    /\ UNCHANGED <<fields_setting, df_new, outFile, fault>>
    /\ UNCHANGED envVars
    /\ UNCHANGED io

\* A quit that ends the process at once, past the wrapper's finally clause.
KeyQuit_NoRestore ==
    /\ pc = "getch"
    /\ ReadSize
    /\ \E c \in QuitKeys : key' = "Exit"
    /\ pc' = "exit"
    /\ UNCHANGED terminal
    /\ UNCHANGED <<current_field_idx, fields_to_window, fields_to_drop,
                   fields_to_keep>>
    /\ UNCHANGED <<cacheFile, fields_setting, df_new, outFile, fault>>
    /\ UNCHANGED envVars
    /\ UNCHANGED io

\* key = "Exit"; exit(): SystemExit leaves the function, the wrapper (whose
\* finally clause ends curses mode) and main.
KeyQuit ==
    /\ pc = "getch"
    /\ ReadSize
    /\ \E c \in QuitKeys : key' = "Exit"
    /\ pc' = "exit"
    /\ terminal' = "normal"
    /\ UNCHANGED <<current_field_idx, fields_to_window, fields_to_drop,
                   fields_to_keep>>
    /\ UNCHANGED <<cacheFile, fields_setting, df_new, outFile, fault>>
    /\ UNCHANGED envVars
    /\ UNCHANGED io

----------------------------------------------------------------------------
(* main                                                                     *)

\* The state of a process once the arguments are parsed and the input table
\* is read (lines 244-246).
Begin(path, table, lags) ==
    /\ pc = "main"
    /\ input_file_path = path
    /\ df = table
    /\ n_lags = lags
    /\ fields_setting = None
    /\ current_field_idx = 0
    /\ fields_to_window = {}
    /\ fields_to_drop = {}
    /\ fields_to_keep = {}
    /\ key = NoKey
    /\ df_new = EmptyFrame
    /\ outFile = NoFile
    /\ fault = ""
    /\ terminal = "normal"
    /\ height = 0
    /\ io = <<"read input">>

\* load_all_cache opens the file when it exists.
ReadCache(file, log) ==
    IF file.kind = "missing" THEN log ELSE Append(log, "read cache")

\* LoadSetting with load_fields_setting reading the cache file once for the
\* exact key and once more for the fallback.
LoadSetting_ReadsTwice ==
    /\ pc = "main"
    /\ io' = ReadCache(cacheFile, ReadCache(cacheFile, io))
    /\ IF load_all_cache_raises(cacheFile)
       THEN /\ pc' = "error"
            /\ fault' = "JSONDecodeError"
            /\ UNCHANGED fields_setting
       ELSE /\ LET loaded == load_fields_setting(cacheFile, input_file_path)
               IN  fields_setting' =
                       IF loaded = None THEN FieldsSetting(df.columns, {}, {})
                                        ELSE loaded
            /\ pc' = "wrapper"
            /\ UNCHANGED fault
    /\ UNCHANGED <<cacheFile, df_new, outFile>>
    /\ UNCHANGED sessionVars
    /\ UNCHANGED envVars
    /\ UNCHANGED <<terminal, height>>

\* fields_setting = load_fields_setting(...), the default when it is None.
LoadSetting ==
    /\ pc = "main"
    /\ io' = ReadCache(cacheFile, io)
    /\ IF load_all_cache_raises(cacheFile)
       THEN /\ pc' = "error"
            /\ fault' = "JSONDecodeError"
            /\ UNCHANGED fields_setting
       ELSE /\ LET loaded == load_fields_setting(cacheFile, input_file_path)
               IN  fields_setting' =
                       IF loaded = None THEN FieldsSetting(df.columns, {}, {})
                                        ELSE loaded
            /\ pc' = "wrapper"
            /\ UNCHANGED fault
    /\ UNCHANGED <<cacheFile, df_new, outFile>>
    /\ UNCHANGED sessionVars
    /\ UNCHANGED envVars
    /\ UNCHANGED <<terminal, height>>

\* save_fields_setting(args.input_file_path, fields_setting)
SaveSetting ==
    /\ pc = "save"
    /\ IF load_all_cache_raises(cacheFile)
       THEN /\ pc' = "error" /\ fault' = "JSONDecodeError" /\ UNCHANGED cacheFile
            /\ io' = ReadCache(cacheFile, io)
       ELSE /\ cacheFile' = save_fields_setting(cacheFile, input_file_path,
                                                fields_setting)
            /\ io' = Append(ReadCache(cacheFile, io), "write cache")
            /\ pc' = "transform"
            /\ UNCHANGED fault
    /\ UNCHANGED <<fields_setting, df_new, outFile>>
    /\ UNCHANGED sessionVars
    /\ UNCHANGED envVars
    /\ UNCHANGED <<terminal, height>>

\* main with the exception of transform caught: the run goes on to to_csv
\* with an empty table.
Transform_CatchesError ==
    /\ pc = "transform"
    /\ UNCHANGED io
    /\ LET r == transform(df, fields_setting, n_lags)
       IN  /\ pc' = "to_csv"
           /\ df_new' = IF r.raised # "" THEN EmptyFrame ELSE r.frame
           /\ UNCHANGED fault
    /\ UNCHANGED <<cacheFile, fields_setting, outFile>>
    /\ UNCHANGED sessionVars
    /\ UNCHANGED envVars
    /\ UNCHANGED <<terminal, height>>

\* df_new = transform(df, fields_setting, args.n_lags)
Transform ==
    /\ pc = "transform"
    /\ UNCHANGED io
    /\ LET r == transform(df, fields_setting, n_lags)
       IN  IF r.raised # ""
           THEN pc' = "error" /\ fault' = r.raised /\ UNCHANGED df_new
           ELSE pc' = "to_csv" /\ df_new' = r.frame /\ UNCHANGED fault
    /\ UNCHANGED <<cacheFile, fields_setting, outFile>>
    /\ UNCHANGED sessionVars
    /\ UNCHANGED envVars
    /\ UNCHANGED <<terminal, height>>

\* df_new.to_csv(args.output_file_path, index=False)
WriteOutput ==
    /\ pc = "to_csv"
    /\ outFile' = to_csv(df_new)
    /\ io' = Append(io, "write output")
    /\ pc' = "done"
    /\ UNCHANGED <<cacheFile, fields_setting, df_new, fault>>
    /\ UNCHANGED sessionVars
    /\ UNCHANGED envVars
    /\ UNCHANGED <<terminal, height>>

\* The program is started again, on the cache file the last run left.
NewRun ==
    /\ pc \in {"done", "exit", "error"}
    /\ cache0' = cacheFile
    /\ pc' = "main"
    /\ input_file_path' \in InputPaths
    /\ df' \in SourceTables
    /\ n_lags' \in RunLags
    /\ fields_setting' = None
    /\ current_field_idx' = 0
    /\ fields_to_window' = {}
    /\ fields_to_drop' = {}
    /\ fields_to_keep' = {}
    /\ key' = NoKey
    /\ df_new' = EmptyFrame
    /\ outFile' = NoFile
    /\ fault' = ""
    /\ terminal' = "normal"
    /\ height' = 0
    /\ io' = <<"read input">>
    /\ UNCHANGED <<cacheFile, lastSaved, firstLoaded>>

NoCall == [path |-> "", setting |-> None]

Init ==
    /\ cacheFile \in {MissingFile, CorruptFile}
    /\ cache0 = cacheFile
    /\ lastSaved = NoCall
    /\ firstLoaded = None
    /\ \E path \in InputPaths, table \in SourceTables, lags \in RunLags :
           Begin(path, table, lags)

Next ==
    \/ LoadSetting
    \/ SessionStart
    \/ KeyDown
    \/ KeyUp
    \/ KeyKeep
    \/ KeyDrop
    \/ KeyWindow
    \/ KeyOther
    \/ KeyEnter
    \/ KeyQuit
    \/ SaveSetting
    \/ Transform
    \/ WriteOutput
    \/ NewRun

Spec == Init /\ [][Next]_vars

----------------------------------------------------------------------------
(* transform on its own: every table within the bounds, every FieldsSetting *)
(* a session over its columns can return and every n_lags, handed to        *)
(* transform and to_csv as main does.                                       *)

FieldNames == {"a", "b", "a_T-0"}

\* The lists of 1..MaxFields distinct column names.
ColumnLists ==
    UNION {{s \in [1..n -> FieldNames] : \A i, j \in 1..n : s[i] = s[j] => i = j}
           : n \in 1..MaxFields}

Tables == {MakeTable(cols, n) : cols \in ColumnLists, n \in 0..MaxRows}

\* What a session over the fields can return: two disjoint sets of fields.
SettingsOver(fields) ==
    {x \in [all_fields : {fields}, fields_to_window : SUBSET Range(fields),
            fields_to_drop : SUBSET Range(fields)] :
        x.fields_to_window \cap x.fields_to_drop = {}}

InitTransform ==
    /\ pc = "transform"
    /\ df \in Tables
    /\ fields_setting \in SettingsOver(df.columns)
    /\ n_lags \in 1..MaxLags
    /\ input_file_path = "/a/data.csv"
    /\ cacheFile = save_fields_setting(MissingFile, input_file_path, fields_setting)
    /\ cache0 = MissingFile
    /\ current_field_idx = 0
    /\ fields_to_window = fields_setting.fields_to_window
    /\ fields_to_drop = fields_setting.fields_to_drop
    /\ fields_to_keep = (Range(all_fields) \ fields_to_window) \ fields_to_drop
    /\ key = "\n"
    /\ df_new = EmptyFrame
    /\ outFile = NoFile
    /\ fault = ""
    /\ lastSaved = NoCall
    /\ firstLoaded = None
    /\ terminal = "normal"
    /\ height = 1
    /\ io = <<"read input", "write cache">>

NextTransform ==
    \/ Transform
    \/ WriteOutput

SpecTransform == InitTransform /\ [][NextTransform]_vars

----------------------------------------------------------------------------
(* The cache on its own: calls of save_fields_setting and                   *)
(* load_fields_setting, in any order, on the file the calls before left.    *)

CachePaths == InputPaths \cup {"/x/data.csv", "/a/mydata.csv"}

CacheSettings ==
    {FieldsSetting(<<"a", "b">>, {"a"}, {}),
     FieldsSetting(<<"a", "b">>, {"b"}, {"a"}),
     FieldsSetting(<<"b">>, {}, {})}

cacheFrame == <<n_lags, df, current_field_idx, fields_to_window, fields_to_drop,
                fields_to_keep, key, df_new, outFile, terminal, height, io>>

\* save_fields_setting(path, setting)
CallSave ==
    /\ pc \in {"idle", "saved", "loaded", "resaved", "reloaded"}
    /\ \E path \in CachePaths, setting \in CacheSettings :
           /\ input_file_path' = path
           /\ fields_setting' = setting
           /\ cache0' = cacheFile
           /\ IF load_all_cache_raises(cacheFile)
              THEN /\ pc' = "error"
                   /\ fault' = "JSONDecodeError"
                   /\ UNCHANGED <<cacheFile, lastSaved>>
              ELSE /\ cacheFile' = save_fields_setting(cacheFile, path, setting)
                   /\ lastSaved' = [path |-> path, setting |-> setting]
                   /\ pc' = "saved"
                   /\ UNCHANGED fault
    /\ UNCHANGED firstLoaded
    /\ UNCHANGED cacheFrame

\* fields_setting = load_fields_setting(path)
CallLoad ==
    /\ pc \in {"idle", "saved", "loaded", "resaved", "reloaded"}
    /\ \E path \in CachePaths :
           /\ input_file_path' = path
           /\ cache0' = cacheFile
           /\ IF load_all_cache_raises(cacheFile)
              THEN /\ pc' = "error"
                   /\ fault' = "JSONDecodeError"
                   /\ UNCHANGED fields_setting
              ELSE /\ fields_setting' = load_fields_setting(cacheFile, path)
                   /\ pc' = "loaded"
                   /\ UNCHANGED fault
    /\ UNCHANGED <<cacheFile, lastSaved, firstLoaded>>
    /\ UNCHANGED cacheFrame

\* What was loaded is saved, unchanged, under the path it was loaded for.
CallResave ==
    /\ pc = "loaded"
    /\ fields_setting # None
    /\ cache0' = cacheFile
    /\ cacheFile' = save_fields_setting(cacheFile, input_file_path, fields_setting)
    /\ lastSaved' = [path |-> input_file_path, setting |-> fields_setting]
    /\ firstLoaded' = fields_setting
    /\ pc' = "resaved"
    /\ UNCHANGED <<input_file_path, fields_setting, fault>>
    /\ UNCHANGED cacheFrame

\* ... and loaded again for the same path.
CallReload ==
    /\ pc = "resaved"
    /\ cache0' = cacheFile
    /\ fields_setting' = load_fields_setting(cacheFile, input_file_path)
    /\ pc' = "reloaded"
    /\ UNCHANGED <<cacheFile, input_file_path, fault, lastSaved, firstLoaded>>
    /\ UNCHANGED cacheFrame

InitCache ==
    /\ pc = "idle"
    /\ cacheFile \in {MissingFile, CorruptFile}
    /\ cache0 = cacheFile
    /\ input_file_path = ""
    /\ fields_setting = None
    /\ n_lags = 1
    /\ df = MakeTable(<<"a", "b">>, 0)
    /\ current_field_idx = 0
    /\ fields_to_window = {}
    /\ fields_to_drop = {}
    /\ fields_to_keep = {}
    /\ key = NoKey
    /\ df_new = EmptyFrame
    /\ outFile = NoFile
    /\ fault = ""
    /\ lastSaved = NoCall
    /\ firstLoaded = None
    /\ terminal = "normal"
    /\ height = 0
    /\ io = <<>>

NextCache ==
    \/ CallSave
    \/ CallLoad
    \/ CallResave
    \/ CallReload

SpecCache == InitCache /\ [][NextCache]_vars

----------------------------------------------------------------------------
(* The session on its own: configure_fields_settings_interactively called   *)
(* with any FieldsSetting, also one no run of the program writes (a cache   *)
(* file edited by hand): the windowed and dropped names may overlap and may *)
(* name fields that are not in all_fields.                                  *)

SessionLists == {<<"a">>, <<"a", "b">>}

SessionNames == {"a", "b", "c"}

AnySettings ==
    [all_fields : SessionLists, fields_to_window : SUBSET SessionNames,
     fields_to_drop : SUBSET SessionNames]

InitSession ==
    /\ pc = "wrapper"
    /\ fields_setting \in AnySettings
    /\ input_file_path = "/a/data.csv"
    /\ df = MakeTable(all_fields, 0)
    /\ n_lags = 1
    /\ cacheFile = MissingFile
    /\ cache0 = MissingFile
    /\ current_field_idx = 0
    /\ fields_to_window = {}
    /\ fields_to_drop = {}
    /\ fields_to_keep = {}
    /\ key = NoKey
    /\ df_new = EmptyFrame
    /\ outFile = NoFile
    /\ fault = ""
    /\ lastSaved = NoCall
    /\ firstLoaded = None
    /\ terminal = "normal"
    /\ height = 0
    /\ io = <<"read input">>

NextSession ==
    \/ SessionStart
    \/ KeyDown
    \/ KeyUp
    \/ KeyKeep
    \/ KeyDrop
    \/ KeyWindow
    \/ KeyOther
    \/ KeyEnter
    \/ KeyQuit

SpecSession == InitSession /\ [][NextSession]_vars

----------------------------------------------------------------------------
(* Properties.                                                              *)

InSession == pc = "getch"

Disjoint(setting) ==
    /\ setting.fields_to_window \cap setting.fields_to_drop = {}
    /\ setting.fields_to_window \cup setting.fields_to_drop
           \subseteq Range(setting.all_fields)

\* C1: whatever FieldsSetting the session is started from (the default or
\* one loaded from the cache) and whatever keys were pressed, the windowed
\* and the dropped set are disjoint subsets of all_fields: before the
\* session, at every wait for a key, and in what the session returns.
C1_DisjointSubsets ==
    fields_setting # None =>
        /\ Disjoint(fields_setting)
        /\ fields_to_window \cap fields_to_drop = {}
        /\ fields_to_window \cup fields_to_drop \subseteq Range(all_fields)

\* A session started from a cached setting with a windowed field, in which
\* that field has just been marked dropped.
C1_Witness ==
    /\ InSession
    /\ cache0.kind = "json"
    /\ key = "d"
    /\ fields_setting.fields_to_window \cap fields_to_drop # {}

\* C2: the cursor is an index of all_fields at every wait for a key;
\* KEY_UP at 0 leaves it at 0, KEY_DOWN at the last index leaves it
\* there, and any other KEY_UP / KEY_DOWN moves it by exactly one.
C2_CursorClamp ==
    /\ [](InSession => current_field_idx \in 0..(Len(all_fields) - 1))
    /\ [][(InSession /\ key' = "KEY_UP") =>
             current_field_idx' = IF current_field_idx = 0 THEN 0
                                  ELSE current_field_idx - 1]_vars
    /\ [][(InSession /\ key' = "KEY_DOWN") =>
             current_field_idx' = IF current_field_idx = Len(all_fields) - 1
                                  THEN current_field_idx
                                  ELSE current_field_idx + 1]_vars

\* KEY_DOWN was pressed on the last of several fields.
C2_Witness ==
    /\ InSession
    /\ key = "KEY_DOWN"
    /\ Len(all_fields) > 1
    /\ current_field_idx = Len(all_fields) - 1

Transformed == pc \in {"to_csv", "done"}

\* C3: for every windowed field f and lag i < n_lags the derived table has
\* a column f_T-i with as many rows as the source table, null in the rows
\* r < i and the source value of row r - i in the rows r >= i.
C3_LagColumns ==
    Transformed =>
        \A f \in fields_setting.fields_to_window : \A i \in 0..(n_lags - 1) :
            /\ new_field(f, i) \in Range(df_new.columns)
            /\ f \in Range(df.columns)
            /\ Len(df_new.col[new_field(f, i)]) = df.nrows
            /\ \A r \in 0..(df.nrows - 1) :
                   IF r < i THEN IsNull(df_new.col[new_field(f, i)][r + 1])
                   ELSE df_new.col[new_field(f, i)][r + 1] = df.col[f][r - i + 1]

\* The column names the walk over all_fields gives, from the k-th field on.
RECURSIVE WalkColumns(_, _, _)
WalkColumns(setting, lags, k) ==
    IF k > Len(setting.all_fields) THEN <<>>
    ELSE LET f == setting.all_fields[k]
             here == IF f \in setting.fields_to_window
                     THEN [i \in 1..lags |-> f \o "_T-" \o ToString(i - 1)]
                     ELSE IF f \in setting.fields_to_drop THEN <<>>
                     ELSE <<f>>
         IN  here \o WalkColumns(setting, lags, k + 1)

\* C4: the derived table's column list is the walk over all_fields: a kept
\* field gives its name, a dropped field nothing, a windowed field its
\* n_lags names f_T-0 .. f_T-(n_lags-1) in place.
C4_ColumnOrder ==
    Transformed => df_new.columns = WalkColumns(fields_setting, n_lags, 1)

Kept(setting) ==
    (Range(setting.all_fields) \ setting.fields_to_window)
        \ setting.fields_to_drop

IndexOf(seq, x) == CHOOSE i \in 1..Len(seq) : seq[i] = x

\* C5: every kept field is a column of the derived table, under its own
\* name and with exactly the source column's values, and kept fields are
\* in the order all_fields has them in.
C5_KeptUnchanged ==
    Transformed =>
        /\ \A f \in Kept(fields_setting) :
               /\ f \in Range(df_new.columns)
               /\ df_new.col[f] = df.col[f]
        /\ \A f, g \in Kept(fields_setting) :
               IndexOf(all_fields, f) < IndexOf(all_fields, g) =>
                   IndexOf(df_new.columns, f) < IndexOf(df_new.columns, g)

\* all_fields without the field f.
Without(setting, f) ==
    FieldsSetting(SelectSeq(setting.all_fields, LAMBDA x : x # f),
                  setting.fields_to_window \ {f}, setting.fields_to_drop \ {f})

\* C6: a dropped field gives no output column (the derived table is the
\* one transform returns without the field) and its name is not in the
\* derived table's column list.
C6_DroppedAbsent ==
    Transformed =>
        \A f \in fields_setting.fields_to_drop :
            /\ transform(df, Without(fields_setting, f), n_lags).frame = df_new
            /\ f \notin Range(df_new.columns)

\* C7: what load returns for a path, saved unchanged under that path and
\* loaded again, is the same FieldsSetting.
C7_RoundTrip == pc = "reloaded" => fields_setting = firstLoaded

\* A round trip on a cache that holds another key ending with the file
\* name and an entry with another setting.
C7_Witness ==
    /\ pc = "reloaded"
    /\ \E i, j \in 1..Len(cacheFile.entries) :
           /\ cacheFile.entries[i].key # Resolve(input_file_path)
           /\ EndsWith(cacheFile.entries[i].key, PathName(Resolve(input_file_path)))
           /\ from_plain(cacheFile.entries[j].value) # fields_setting

\* A load for path Q right after a save for path P of the same file name
\* in another directory, the cache holding no entry for Q itself.
FallbackCase ==
    /\ pc = "loaded"
    /\ lastSaved # NoCall
    /\ Resolve(lastSaved.path) # Resolve(input_file_path)
    /\ PathName(Resolve(lastSaved.path)) = PathName(Resolve(input_file_path))
    /\ Resolve(input_file_path) \notin DictKeys(cacheFile.entries)

MatchingKeys(path) ==
    {k \in DictKeys(cacheFile.entries) :
        k = Resolve(path) \/ EndsWith(k, PathName(Resolve(path)))}

\* C8 as stated: in that case load returns what was saved for P, and load
\* returns None only when no key matches exactly or by suffix.
C8_FallbackReturnsSaved ==
    /\ FallbackCase => fields_setting = lastSaved.setting
    /\ (pc = "loaded" /\ fields_setting = None) => MatchingKeys(input_file_path) = {}

\* C8 amended: in that case load returns the entry of the least key, in
\* code point order, that ends with Q's file name, which is what was
\* saved for P when P's is that key; and load returns None only when no
\* key matches exactly or by suffix.
C8_FallbackFirstMatch ==
    /\ FallbackCase =>
           LET hits == MatchingKeys(input_file_path)
               least == CHOOSE k \in hits : \A k2 \in hits : k2 = k \/ StrLess(k, k2)
           IN  /\ Resolve(lastSaved.path) \in hits
               /\ fields_setting = from_plain(DictGet(cacheFile.entries, least))
               /\ least = Resolve(lastSaved.path) => fields_setting = lastSaved.setting
    /\ (pc = "loaded" /\ fields_setting = None) => MatchingKeys(input_file_path) = {}

\* The fallback returned what was saved for P although another key ends
\* with the file name too.
C8_Witness ==
    /\ FallbackCase
    /\ Cardinality(MatchingKeys(input_file_path)) > 1
    /\ fields_setting = lastSaved.setting
    /\ \E i \in 1..Len(cacheFile.entries) :
           from_plain(cacheFile.entries[i].value) # fields_setting

\* C9: on a cache file that is missing or does not hold JSON, load returns
\* None, save writes a cache of the one entry, and neither raises.
C9_UnreadableCacheIsEmpty ==
    cache0.kind \in {"missing", "corrupt"} =>
        /\ fault = ""
        /\ pc # "error"
        /\ pc = "loaded" => fields_setting = None
        /\ pc = "saved" => DictKeys(cacheFile.entries) = {Resolve(input_file_path)}

\* C10: until Enter is pressed, and when q or ESC was pressed instead, the
\* cache file is the one the process found, nothing is written to the
\* output file, transform was not run, and main's fields_setting is still
\* the loaded (or default) one: the session returned nothing.
C10_QuitPersistsNothing ==
    pc \in {"getch", "exit"} =>
        /\ cacheFile = cache0
        /\ outFile = NoFile
        /\ df_new = EmptyFrame
        /\ fields_setting =
               LET loaded == load_fields_setting(cache0, input_file_path)
               IN  IF loaded = None THEN FieldsSetting(df.columns, {}, {})
                                    ELSE loaded

\* Quit after edits, on a cache an earlier run wrote.
C10_Witness ==
    /\ pc = "exit"
    /\ cache0.kind = "json"
    /\ fields_to_window # fields_setting.fields_to_window
    /\ fields_to_drop # fields_setting.fields_to_drop

\* C11: the terminal is in curses mode only while the session waits for a
\* key.  However the session ends - ENTER, a quit key's exit(), or an
\* exception raised in the loop - and in every state of the process after
\* it (and before it), the terminal is back in its normal mode.
C11_TerminalRestored ==
    /\ pc # "getch" => terminal = "normal"
    /\ pc \in {"save", "transform", "to_csv", "done", "exit", "error"}
           => terminal = "normal"

\* A session that was entered and then left by a quit key.
C11_Witness ==
    /\ pc = "exit"
    /\ key = "Exit"
    /\ height > 0
    /\ terminal = "normal"

\* The pad rows pad.refresh puts on the screen: from pminrow on, as many as
\* fit between screen row 0 and smaxrow.
VisibleRows(idx, h, fields) ==
    pminrow(idx, h)..(pminrow(idx, h) + smaxrow(h, fields))

\* C12: at every redraw, whatever the cursor (0..len(all_fields)-1) and the
\* terminal height (at least 1), the pad row of the field under the cursor,
\* current_field_idx + 1, is among the rows the refresh shows:
\* max(0, cursor - height + 2) <= cursor + 1
\*     <= max(0, cursor - height + 2) + min(height, len(all_fields) + 2) - 1.
C12_CursorVisible ==
    InSession =>
        /\ height >= 1
        /\ current_field_idx \in 0..(Len(all_fields) - 1)
        /\ current_field_idx + 1 \in VisibleRows(current_field_idx, height, all_fields)
        /\ pminrow(current_field_idx, height) <= current_field_idx + 1
        /\ current_field_idx + 1 <= pminrow(current_field_idx, height)
                                      + Min(height, Len(all_fields) + 2) - 1

\* The view is scrolled: the cursor is on the last field and the terminal
\* is too low to show the whole pad.
C12_Witness ==
    /\ InSession
    /\ current_field_idx = Len(all_fields) - 1
    /\ current_field_idx > 0
    /\ height < pad_height(all_fields)
    /\ pminrow(current_field_idx, height) > 0

MarkKeys == {"w", "d"} \cup KeepKeys

\* The one set among <<window, drop, keep>> a mark key puts the field in.
MarkedSet(c, w, d, k) == IF c = "w" THEN w ELSE IF c = "d" THEN d ELSE k

\* The sets restricted to the fields other than f.
Others(f, w, d, k) == <<w \ {f}, d \ {f}, k \ {f}>>

\* C13: a mark key (w, d, k or space) pressed with the cursor at c puts
\* all_fields[c] in exactly the set of that mark and in neither of the other
\* two, leaves the sets of every other field and all_fields as they were,
\* and moves the cursor to c + 1 clamped to the last index.  No other key
\* changes the sets, and ENTER returns all_fields with the windowed and
\* dropped sets as they then are: what the session returns for a field is
\* its last mark, or its initial state when it was never marked.
C13_MarkEffect ==
    [][ /\ (InSession /\ key' \in MarkKeys) =>
               LET f == all_fields[current_field_idx + 1]
                   marked == {f} \cap MarkedSet(key', fields_to_window',
                                                fields_to_drop', fields_to_keep')
               IN  /\ marked = {f}
                   /\ Cardinality({s \in {"w", "d", "k"} :
                          f \in MarkedSet(s, fields_to_window', fields_to_drop',
                                          fields_to_keep')}) = 1
                   /\ Others(f, fields_to_window', fields_to_drop', fields_to_keep')
                          = Others(f, fields_to_window, fields_to_drop, fields_to_keep)
                   /\ fields_setting' = fields_setting
                   /\ current_field_idx' =
                          Min(current_field_idx + 1, Len(all_fields) - 1)
        /\ (InSession /\ key' \notin MarkKeys) =>
               UNCHANGED <<fields_to_window, fields_to_drop, fields_to_keep>>
        /\ (InSession /\ key' \in EnterKeys) =>
               /\ pc' = "save"
               /\ fields_setting' = [all_fields |-> all_fields,
                                     fields_to_window |-> fields_to_window,
                                     fields_to_drop |-> fields_to_drop]
      ]_vars

\* The first field was just marked windowed, the cursor moved on, and the
\* other field is still dropped as an earlier mark left it.
C13_Witness ==
    /\ InSession
    /\ key = "w"
    /\ Len(all_fields) = 2
    /\ current_field_idx = 1
    /\ fields_to_window = {all_fields[1]}
    /\ fields_to_drop = {all_fields[2]}
    /\ fields_to_keep = {}

\* C14: a key that is none of the recognized ones changes nothing: the
\* cursor, the three sets and all_fields stay as they are and the session
\* goes on waiting for a key.  KEY_UP and KEY_DOWN change nothing but the
\* cursor.
C14_OtherKeysNoOp ==
    [][ /\ (InSession /\ key' \in OtherKeys) =>
               /\ UNCHANGED <<current_field_idx, fields_to_window,
                              fields_to_drop, fields_to_keep, fields_setting>>
               /\ pc' = "getch"
               /\ terminal' = "curses"
        /\ (InSession /\ key' \in MoveKeys) =>
               /\ UNCHANGED <<fields_to_window, fields_to_drop, fields_to_keep,
                              fields_setting>>
               /\ pc' = "getch"
               /\ terminal' = "curses"
      ]_vars

\* An unrecognized key was read in a session whose cursor had moved and
\* whose sets had been edited.
C14_Witness ==
    /\ InSession
    /\ key \in OtherKeys
    /\ current_field_idx = 1
    /\ fields_to_window # {}
    /\ fields_to_drop # {}

\* C15: in every run the FieldsSetting handed to the session and to
\* transform - the default, or one the cache returned by exact match or by
\* the suffix fallback - has all_fields equal to the column names of the
\* table read, in the table's order; so every column of the table that is
\* not dropped is in the derived table, as itself or as its lag columns.
C15_AllFieldsAreColumns ==
    /\ pc \in {"wrapper", "getch", "save", "transform", "to_csv", "done"}
           => all_fields = df.columns
    /\ pc \in {"to_csv", "done"}
           => \A i \in 1..Len(df.columns) :
                  LET f == df.columns[i]
                  IN  f \notin fields_setting.fields_to_drop
                          => \/ f \in Range(df_new.columns)
                             \/ new_field(f, 0) \in Range(df_new.columns)

\* The session has returned its FieldsSetting and it names a windowed field
\* that is not a column of the table read.
WindowedMissing ==
    /\ pc \in {"transform", "to_csv", "done", "error"}
    /\ key \in EnterKeys
    /\ \E f \in fields_setting.fields_to_window :
           f \in Range(all_fields) /\ f \notin Range(df.columns)

\* C16: when the FieldsSetting the session returned names a windowed field
\* that the table read does not have, transform ends the run with an error
\* (KeyError) and no output file is written; the cache already holds that
\* FieldsSetting under the input's resolved path.
C16_MissingWindowedAborts ==
    WindowedMissing =>
        /\ pc \in {"transform", "error"}
        /\ pc = "error" => fault = "KeyError"
        /\ df_new = EmptyFrame
        /\ outFile = NoFile
        /\ "write output" \notin Range(io)
        /\ cacheFile.kind = "json"
        /\ Resolve(input_file_path) \in DictKeys(cacheFile.entries)
        /\ from_plain(DictGet(cacheFile.entries, Resolve(input_file_path)))
               = fields_setting

\* transform has raised on such a FieldsSetting.
C16_Witness ==
    /\ WindowedMissing
    /\ pc = "error"
    /\ fault = "KeyError"
    /\ outFile = NoFile

\* How often the process opened a file for an access.
Count(log, what) == Cardinality({i \in 1..Len(log) : log[i] \in what})

CacheAccess == {"read cache", "write cache"}

Confirmed == pc \in {"transform", "to_csv", "done"}

\* C17, as stated: in every run the cache file, the input file and the
\* output file are each accessed at most once; the cache is written exactly
\* once in a run that was confirmed, after the session returned and before
\* the output file is written.
C17_EachFileOnce ==
    /\ Count(io, CacheAccess) <= 1
    /\ Count(io, {"read input"}) <= 1
    /\ Count(io, {"write output"}) <= 1
    /\ Confirmed => Count(io, {"write cache"}) = 1

\* The accesses in the order a run makes them, reads of the cache aside.
WithoutReads(log) == SelectSeq(log, LAMBDA x : x # "read cache")

\* C17, amended: the input file is read once and the output file written at
\* most once; the cache file is read at most twice (by load_fields_setting,
\* and again by save_fields_setting before it rewrites the file) and
\* written at most once: never before the session returned on ENTER,
\* exactly once in a confirmed run, after every read and before the output
\* file is written.  The accesses follow one another in that order.
C17_CacheReadTwiceWrittenOnce ==
    /\ Count(io, {"read input"}) = 1
    /\ Count(io, {"write output"}) <= 1
    /\ Count(io, {"read cache"}) <= 2
    /\ Count(io, {"write cache"}) <= 1
    /\ pc \in {"main", "wrapper", "getch", "save", "exit"}
           => Count(io, {"write cache"}) = 0
    /\ Confirmed => Count(io, {"write cache"}) = 1 /\ key \in EnterKeys
    /\ pc = "done" <=> Count(io, {"write output"}) = 1
    /\ WithoutReads(io) \in {<<"read input">>,
                             <<"read input", "write cache">>,
                             <<"read input", "write cache", "write output">>}
    /\ \A i, j \in 1..Len(io) :
           (io[i] = "write cache" /\ io[j] = "read cache") => j < i

\* A confirmed run on a cache an earlier run left: read by the load, read
\* again and rewritten by the save, then the output written.
C17_Witness ==
    /\ pc = "done"
    /\ io = <<"read input", "read cache", "read cache", "write cache",
              "write output">>

\* The state after a save_fields_setting call that returned.
AfterSave == pc \in {"saved", "resaved"}

\* C18: save_fields_setting(path, setting) changes the one entry whose key
\* is the resolved path: after it that key holds the setting, the keys are
\* those of the file before and that key, and every other key has the value
\* it had.  No step ever removes a key: no sequence of saves deletes an
\* entry.
C18_SaveUpsertsOnly ==
    /\ [](AfterSave =>
            LET before == load_all_cache(cache0)
                after == cacheFile.entries
                k == Resolve(lastSaved.path)
            IN  /\ cacheFile.kind = "json"
                /\ DictKeys(after) = DictKeys(before) \cup {k}
                /\ DictGet(after, k) = to_plain(lastSaved.setting)
                /\ \A j \in DictKeys(before) \ {k} :
                       DictGet(after, j) = DictGet(before, j))
    /\ [][ /\ DictKeys(load_all_cache(cacheFile))
                  \subseteq DictKeys(load_all_cache(cacheFile'))
           /\ Len(load_all_cache(cacheFile)) <= Len(load_all_cache(cacheFile'))
         ]_vars

\* A save that replaced the value of a key the file already had, next to
\* another entry.
C18_Witness ==
    /\ pc = "saved"
    /\ Len(load_all_cache(cache0)) >= 2
    /\ Resolve(lastSaved.path) \in DictKeys(load_all_cache(cache0))
    /\ DictGet(load_all_cache(cache0), Resolve(lastSaved.path))
           # to_plain(lastSaved.setting)
    /\ Len(cacheFile.entries) = Len(load_all_cache(cache0))

\* C19: the "Unexpected field" exception of the drawing loop is never
\* raised.  Whatever FieldsSetting the session starts from - the windowed
\* and dropped names overlapping or naming fields outside all_fields - and
\* whatever keys are pressed, at every redraw each field of all_fields is in
\* at least one of the three sets.
C19_NoUnexpectedField ==
    /\ fault # "Exception: Unexpected field"
    /\ pc # "error"
    /\ pc \in {"getch", "save", "exit"} =>
           /\ ~draw_raises(all_fields, fields_to_window, fields_to_drop,
                           fields_to_keep)
           /\ Range(all_fields)
                  \subseteq fields_to_window \cup fields_to_drop \cup fields_to_keep

\* A session started from overlapping sets that name a field outside
\* all_fields, after a mark and with a field still in two sets.
C19_Witness ==
    /\ InSession
    /\ key \in MarkKeys
    /\ fields_setting.fields_to_window \cap fields_setting.fields_to_drop
           \cap Range(all_fields) # {}
    /\ ~(fields_setting.fields_to_window \subseteq Range(all_fields))
    /\ fields_to_window \cap fields_to_drop \cap Range(all_fields) # {}

\* C20: a load that finds no entry under the resolved path and returns a
\* FieldsSetting by the suffix fallback returns one that is stored under a
\* key whose file name is the requested file name: never, for data.csv, the
\* entry of a key that merely ends with it, such as /a/mydata.csv.
C20_FallbackSameBaseName ==
    (/\ pc = "loaded"
     /\ Resolve(input_file_path) \notin DictKeys(load_all_cache(cacheFile))
     /\ fields_setting # None)
        => \E i \in 1..Len(cacheFile.entries) :
               /\ PathName(cacheFile.entries[i].key)
                      = PathName(Resolve(input_file_path))
               /\ from_plain(cacheFile.entries[i].value) = fields_setting

=============================================================================
